---- MODULE Spec2Model ----
(***************************************************************************)
(* Model of manga_manager/img_operations/images_operations.py: the page    *)
(* splitter (split_and_crop_image), the segmenter                          *)
(* (split_image_by_blank_or_dark_spaces), the content cropper              *)
(* (crop_image_by_blank_or_dark_space), the canvas fitter                  *)
(* (enhance_image_for_screen) and the background chooser                   *)
(* (best_background_for_image).                                            *)
(*                                                                         *)
(* An image is a record with its size and its pixel rows (px[y+1][x+1] is  *)
(* the RGB triple of the pixel at column x, row y).  The fields left/top   *)
(* record where the image's pixel (0,0) lies in the page it was cut from;  *)
(* the program does not keep them, they let the properties speak about     *)
(* crop boxes.  Pages are RGB, as image_generator (line 296) produces them.*)
(* The pixels a LANCZOS resize produces are not computed: a resized image  *)
(* is its size and the sum of its grayscale values, which the resampler    *)
(* (the environment) chooses.                                              *)
(***************************************************************************)
EXTENDS Integers, Sequences, FiniteSets, TLC

VARIABLES
    image,            \* the image argument of the call under way
    page_num,         \* split_and_crop_image's page_num
    params,           \* thresholds, min_gap, min_segment_height of the call
    pc,               \* position in the call
    split_positions,  \* split_image_by_blank_or_dark_spaces: split_positions
    i,                \* split_image_by_blank_or_dark_spaces: loop index i
    cropped_images,   \* split_image_by_blank_or_dark_spaces: cropped_images
    segments,         \* <<start, end>> of every segment that passed line 211
    images,           \* split_and_crop_image: images (the returned list)
    result,           \* return value of a directly called function
    errors            \* functions that logged through logger.error

vars == <<image, page_num, params, pc, split_positions, i, cropped_images,
          segments, images, result, errors>>

-----------------------------------------------------------------------------
(* Bounds of the model *)

\* widest page of the page-splitter runs
MaxWidth == 2
\* most horizontal bands a page of the page-splitter runs is built from
MaxBands == 2
\* tallest image of the segmenter runs
MaxRows == 6
\* largest min_gap of the segmenter runs
MaxGap == 2
\* largest min_segment_height of the segmenter runs
MaxSegHeight == 3
\* most pixels of an image of the content-cropper runs
MaxCropPixels == 8
\* most pixels of a resized image in the background runs
MaxBgPixels == 2
\* the canvas: env_vars.final_document_width / final_document_height, process
\* configuration whose values are not part of the module under study
final_document_width == 60
final_document_height == 80

-----------------------------------------------------------------------------
(* Program constants: the default arguments *)

detect_threshold_light == 240
detect_threshold_dark == 15
crop_blank_threshold == 240
\* a crop with the dead-row detector's dark threshold instead of its own
crop_dark_threshold_as_detect == detect_threshold_dark
crop_dark_threshold == 30
default_min_gap == 20
default_min_segment_height == 75

-----------------------------------------------------------------------------
(* Pixels and images *)

White == <<255, 255, 255>>
Black == <<0, 0, 0>>
Dim   == <<20, 20, 20>>
Gray  == <<128, 128, 128>>
Red   == <<200, 30, 30>>

Min(S) == CHOOSE x \in S : \A y \in S : x <= y
Max(S) == CHOOSE x \in S : \A y \in S : x >= y
Abs(n) == IF n < 0 THEN -n ELSE n

\* image.convert('L') of one RGB pixel (ITU-R 601-2 luma, as Pillow computes it)
ToL(p) == (p[1] * 19595 + p[2] * 38470 + p[3] * 7471 + 32768) \div 65536

NewImage(w, rows) ==
    [kind |-> "pixels", width |-> w, height |-> Len(rows), px |-> rows,
     left |-> 0, top |-> 0]

\* image.crop((x0, y0, x1, y1)) for a box inside the image
crop(img, x0, y0, x1, y1) ==
    [kind |-> "pixels", width |-> x1 - x0, height |-> y1 - y0,
     px |-> [y \in 1..(y1 - y0) |-> [x \in 1..(x1 - x0) |-> img.px[y0 + y][x0 + x]]],
     left |-> img.left + x0, top |-> img.top + y0]

\* grayscale value of the pixel at column x, row y
GrayAt(img, x, y) == ToL(img.px[y + 1][x + 1])

-----------------------------------------------------------------------------
(* best_background_for_image, lines 15-42 *)

\* A resized image: its size and the sum of its grayscale values.
Resized(w, h, graysum, src) ==
    [kind |-> "resized", width |-> w, height |-> h, graysum |-> graysum, of |-> src]

\* average_brightness(image) = stat.mean[0] = graysum / (width * height); the
\* comparisons of best_background_for_image are made on the numerators.
PixelCount(img) == img.width * img.height

contrast_with_white_times_count(img) == Abs(255 * PixelCount(img) - img.graysum)
contrast_with_black_times_count(img) == img.graysum

best_background_for_image(img) ==
    IF contrast_with_white_times_count(img) > contrast_with_black_times_count(img)
    THEN <<0, 0, 0>>
    ELSE <<255, 255, 255>>

-----------------------------------------------------------------------------
(* is_not_manga, lines 78-106 *)

\* aspect_ratio > 1.5 with aspect_ratio = width / height
AspectAbove1_5(img) == 2 * img.width > 3 * img.height

\* lines 87-93 for a three-channel array: colored unless the channels agree
is_colored(img) ==
    ~ ( (\A y \in 1..img.height : \A x \in 1..img.width : img.px[y][x][1] = img.px[y][x][2])
        /\ (\A y \in 1..img.height : \A x \in 1..img.width : img.px[y][x][2] = img.px[y][x][3]) )

is_not_manga(img) ==
    IF AspectAbove1_5(img) /\ is_colored(img) THEN TRUE
    ELSE IF ~ is_colored(img) THEN FALSE
    ELSE TRUE

-----------------------------------------------------------------------------
(* detect_blank_or_dark_spaces, lines 109-128 *)

RowIsDead(img, y, threshold_light, threshold_dark) ==
    \/ \A x \in 0..(img.width - 1) : GrayAt(img, x, y) > threshold_light
    \/ \A x \in 0..(img.width - 1) : GrayAt(img, x, y) < threshold_dark

detect_blank_or_dark_spaces(img, threshold_light, threshold_dark) ==
    SelectSeq([k \in 1..img.height |-> k - 1],
              LAMBDA y : RowIsDead(img, y, threshold_light, threshold_dark))

-----------------------------------------------------------------------------
(* crop_image_by_blank_or_dark_space, lines 131-155 *)

\* crop_mask of line 141 at row y, column x
crop_mask(img, x, y, blank_threshold, dark_threshold) ==
    ~ (GrayAt(img, x, y) > blank_threshold \/ GrayAt(img, x, y) < dark_threshold)

\* np.argwhere(crop_mask): the <<y, x>> of the pixels the mask keeps
argwhere_crop_mask(img, blank_threshold, dark_threshold) ==
    {c \in (0..(img.height - 1)) \X (0..(img.width - 1)) :
        crop_mask(img, c[2], c[1], blank_threshold, dark_threshold)}

\* the crop with the far corner taken without the + 1 of line 146
crop_image_without_plus_one(img, blank_threshold, dark_threshold) ==
    LET coords == argwhere_crop_mask(img, blank_threshold, dark_threshold)
    IN  IF coords # {}
        THEN LET y0 == Min({c[1] : c \in coords})
                 x0 == Min({c[2] : c \in coords})
                 y1 == Max({c[1] : c \in coords})
                 x1 == Max({c[2] : c \in coords})
             IN  crop(img, x0, y0, x1, y1)
        ELSE img

crop_image_by_blank_or_dark_space(img, blank_threshold, dark_threshold) ==
    LET coords == argwhere_crop_mask(img, blank_threshold, dark_threshold)
    IN  IF coords # {}
        THEN LET y0 == Min({c[1] : c \in coords})
                 x0 == Min({c[2] : c \in coords})
                 y1 == Max({c[1] : c \in coords}) + 1
                 x1 == Max({c[2] : c \in coords}) + 1
             IN  crop(img, x0, y0, x1, y1)
        ELSE img

-----------------------------------------------------------------------------
(* enhance_image_for_screen, lines 158-186 *)

\* lines 163-172: <<new_width, new_height>>.  img_aspect_ratio >
\* screen_aspect_ratio is width * screen_height > screen_width * height, and
\* int() of the quotient is the floor of the exact quotient (the double
\* arithmetic of the source agrees with it for every size of these runs).
new_size(img, screen_width, screen_height) ==
    IF img.width * screen_height > screen_width * img.height
    THEN <<screen_width, (screen_width * img.height) \div img.width>>
    ELSE <<(screen_height * img.width) \div img.height, screen_height>>

\* img.resize (line 174) raises ValueError("height and width must be > 0")
\* when a side of the requested size is 0
resize_raises(size) == size[1] < 1 \/ size[2] < 1

\* what the resampler may return as the sum of grayscale values of the
\* resized image: the mean values 127 and 128, one on each side of line 39
ResampledSums(size) ==
    IF resize_raises(size) THEN {0}
    ELSE {m * size[1] * size[2] : m \in {127, 128}}

enhance_raises(img, screen_width, screen_height) ==
    resize_raises(new_size(img, screen_width, screen_height))

\* the value returned: the canvas (line 183), or img itself when line 174
\* raised (line 186)
enhance_image_for_screen(img, screen_width, screen_height, graysum) ==
    LET size == new_size(img, screen_width, screen_height)
        resized_img == Resized(size[1], size[2], graysum, img)
    IN  IF resize_raises(size)
        THEN img
        ELSE [kind |-> "canvas", width |-> screen_width, height |-> screen_height,
              background |-> best_background_for_image(resized_img),
              paste_x |-> (screen_width - size[1]) \div 2,
              paste_y |-> (screen_height - size[2]) \div 2,
              content |-> resized_img]

\* logger.error of line 185
LogEnhance(img, screen_width, screen_height) ==
    IF enhance_raises(img, screen_width, screen_height)
    THEN <<"enhance_image_for_screen">>
    ELSE <<>>

-----------------------------------------------------------------------------
(* split_image_by_blank_or_dark_spaces, lines 189-223 *)

\* The loop index i is Python's: the pair of the iteration is
\* split_positions[i - 1], split_positions[i], 0-based.
prev_position == split_positions[i]
cur_position == split_positions[i + 1]

\* line 207
gap_exceeds(prev, cur, min_gap) == cur - prev > min_gap

\* line 211 never refusing a segment
segment_any_height(segment, min_segment_height) == TRUE
\* line 211
segment_tall_enough(segment, min_segment_height) == segment.height >= min_segment_height

\* line 208
segment_at(img, prev, cur) == crop(img, 0, prev, img.width, cur)

\* lines 201-204
SplitBegin ==
    /\ pc = "split_call"
    /\ split_positions' =
          <<0>> \o detect_blank_or_dark_spaces(image, params.threshold_light,
                                               params.threshold_dark)
               \o <<image.height>>
    /\ cropped_images' = <<>>
    /\ i' = 1
    /\ pc' = "split_loop"
    /\ UNCHANGED <<image, page_num, params, segments, images, result, errors>>

\* line 207 false: nothing is cut for this pair
SplitSkipGap ==
    /\ pc = "split_loop"
    /\ i < Len(split_positions)
    /\ ~ gap_exceeds(prev_position, cur_position, params.min_gap)
    /\ i' = i + 1
    /\ UNCHANGED <<image, page_num, params, pc, split_positions, cropped_images,
                   segments, images, result, errors>>

\* lines 208, 211, 215-217: the segment is cut and skipped with a warning
SplitSkipSmall ==
    /\ pc = "split_loop"
    /\ i < Len(split_positions)
    /\ gap_exceeds(prev_position, cur_position, params.min_gap)
    /\ ~ segment_tall_enough(segment_at(image, prev_position, cur_position),
                             params.min_segment_height)
    /\ i' = i + 1
    /\ UNCHANGED <<image, page_num, params, pc, split_positions, cropped_images,
                   segments, images, result, errors>>

\* lines 208-214: the segment is cut, cropped, fitted and appended
SplitEmit ==
    /\ pc = "split_loop"
    /\ i < Len(split_positions)
    /\ gap_exceeds(prev_position, cur_position, params.min_gap)
    /\ LET segment == segment_at(image, prev_position, cur_position)
           segment_cropped ==
               crop_image_by_blank_or_dark_space(segment, crop_blank_threshold,
                                                 crop_dark_threshold)
       IN  /\ segment_tall_enough(segment, params.min_segment_height)
           /\ \E graysum \in ResampledSums(new_size(segment_cropped,
                                 final_document_width, final_document_height)) :
                 cropped_images' =
                     Append(cropped_images,
                            enhance_image_for_screen(segment_cropped,
                                final_document_width, final_document_height, graysum))
           /\ errors' = errors \o LogEnhance(segment_cropped, final_document_width,
                                             final_document_height)
           /\ segments' = Append(segments, <<prev_position, cur_position>>)
    /\ i' = i + 1
    /\ UNCHANGED <<image, page_num, params, pc, split_positions, images, result>>

\* lines 219-220: the loop is over, cropped_images is returned
SplitReturn ==
    /\ pc = "split_loop"
    /\ i >= Len(split_positions)
    /\ pc' = "split_ret"
    /\ UNCHANGED <<image, page_num, params, split_positions, i, cropped_images,
                   segments, images, result, errors>>

-----------------------------------------------------------------------------
(* split_and_crop_image, lines 226-242 *)

default_params ==
    [threshold_light |-> detect_threshold_light,
     threshold_dark |-> detect_threshold_dark,
     min_gap |-> default_min_gap,
     min_segment_height |-> default_min_segment_height]

\* line 230 without the exception for the first page
use_splitter_on_every_page(img, page) == is_not_manga(img)
\* line 230
use_splitter(img, page) == page # 0 /\ is_not_manga(img)

\* line 230 true, line 231: split_image_by_blank_or_dark_spaces(image=image)
DispatchSplit ==
    /\ pc = "start"
    /\ use_splitter(image, page_num)
    /\ pc' = "split_call"
    /\ UNCHANGED <<image, page_num, params, split_positions, i, cropped_images,
                   segments, images, result, errors>>

\* line 230 false
DispatchManga ==
    /\ pc = "start"
    /\ ~ use_splitter(image, page_num)
    /\ pc' = "manga"
    /\ UNCHANGED <<image, page_num, params, split_positions, i, cropped_images,
                   segments, images, result, errors>>

\* lines 231-234 and 242: every segment returned is appended, images is returned
CollectSegments ==
    /\ pc = "split_ret"
    /\ images' = images \o cropped_images
    /\ pc' = "done"
    /\ UNCHANGED <<image, page_num, params, split_positions, i, cropped_images,
                   segments, result, errors>>

\* lines 236-239 and 242
MangaBranch ==
    /\ pc = "manga"
    /\ LET image_content ==
               crop_image_by_blank_or_dark_space(image, crop_blank_threshold,
                                                 crop_dark_threshold)
       IN  /\ \E graysum \in ResampledSums(new_size(image_content,
                                 final_document_width, final_document_height)) :
                 images' =
                     Append(images,
                            enhance_image_for_screen(image_content,
                                final_document_width, final_document_height, graysum))
           /\ errors' = errors \o LogEnhance(image_content, final_document_width,
                                             final_document_height)
    /\ pc' = "done"
    /\ UNCHANGED <<image, page_num, params, split_positions, i, cropped_images,
                   segments, result>>

-----------------------------------------------------------------------------
(* The page-splitter runs: split_and_crop_image on a page *)

Repeat(x, n) == [k \in 1..n |-> x]

\* Pages are stacks of horizontal bands of one colour each.  A band is 1 row,
\* more than min_gap rows but fewer than min_segment_height, or at least
\* min_segment_height rows.
BandHeights == {1, default_min_gap + 1, default_min_segment_height + 1}
Bands == {White, Dim, Gray, Red} \X BandHeights

RECURSIVE BandRows(_, _)
BandRows(bands, w) ==
    IF bands = <<>> THEN <<>>
    ELSE Repeat(Repeat(bands[1][1], w), bands[1][2]) \o BandRows(Tail(bands), w)

Pages ==
    {NewImage(w, BandRows(bands, w)) :
        w \in 1..MaxWidth,
        bands \in UNION {[1..n -> Bands] : n \in 1..MaxBands}}

Init ==
    /\ image \in Pages
    /\ page_num \in {0, 1}
    /\ params = default_params
    /\ pc = "start"
    /\ split_positions = <<>>
    /\ i = 0
    /\ cropped_images = <<>>
    /\ segments = <<>>
    /\ images = <<>>
    /\ result = <<>>
    /\ errors = <<>>

Next ==
    \/ DispatchSplit
    \/ DispatchManga
    \/ SplitBegin
    \/ SplitSkipGap
    \/ SplitSkipSmall
    \/ SplitEmit
    \/ SplitReturn
    \/ CollectSegments
    \/ MangaBranch

Spec == Init /\ [][Next]_vars

-----------------------------------------------------------------------------
(* The segmenter runs: split_image_by_blank_or_dark_spaces called with its  *)
(* own min_gap and min_segment_height, on one-column images                 *)

\* the page of the worked example: height 2000, dark bands at rows 600-649
\* and 1400-1449, content everywhere else
ScenarioImage ==
    NewImage(1, BandRows(<< <<Gray, 600>>, <<Black, 50>>, <<Gray, 750>>,
                            <<Black, 50>>, <<Gray, 550>> >>, 1))

SegmenterImages ==
    UNION {{NewImage(1, [y \in 1..h |-> <<column[y]>>]) :
               column \in [1..h -> {Black, Gray}]} : h \in 1..MaxRows}

SegmenterCalls ==
    {<<img, [default_params EXCEPT !.min_gap = g, !.min_segment_height = m]>> :
        img \in SegmenterImages,
        g \in 0..MaxGap, m \in 0..MaxSegHeight}
    \cup {<<ScenarioImage, default_params>>}

InitSeg ==
    /\ \E call \in SegmenterCalls : image = call[1] /\ params = call[2]
    /\ page_num = 1
    /\ pc = "split_call"
    /\ split_positions = <<>>
    /\ i = 0
    /\ cropped_images = <<>>
    /\ segments = <<>>
    /\ images = <<>>
    /\ result = <<>>
    /\ errors = <<>>

NextSeg ==
    \/ SplitBegin
    \/ SplitSkipGap
    \/ SplitSkipSmall
    \/ SplitEmit
    \/ SplitReturn

SpecSeg == InitSeg /\ [][NextSeg]_vars

-----------------------------------------------------------------------------
(* The content-cropper runs: crop_image_by_blank_or_dark_space on every     *)
(* small image of light, dim and mid-gray pixels                            *)

InitCrop ==
    /\ \E w \in 1..MaxCropPixels : \E h \in 1..(MaxCropPixels \div w) :
          \E rows \in [1..h -> [1..w -> {White, Dim, Gray}]] :
             image = NewImage(w, rows)
    /\ params \in {[blank_threshold |-> crop_blank_threshold, dark_threshold |-> d] :
                      d \in {crop_dark_threshold, detect_threshold_dark}}
    /\ page_num = 0
    /\ pc = "crop_call"
    /\ split_positions = <<>>
    /\ i = 0
    /\ cropped_images = <<>>
    /\ segments = <<>>
    /\ images = <<>>
    /\ result = <<>>
    /\ errors = <<>>

CropCall ==
    /\ pc = "crop_call"
    /\ result' = crop_image_by_blank_or_dark_space(image, params.blank_threshold,
                                                   params.dark_threshold)
    /\ pc' = "crop_ret"
    /\ UNCHANGED <<image, page_num, params, split_positions, i, cropped_images,
                   segments, images, errors>>

NextCrop == CropCall

SpecCrop == InitCrop /\ [][NextCrop]_vars

-----------------------------------------------------------------------------
(* The background runs: best_background_for_image on a resized image of     *)
(* every mean brightness                                                    *)

InitBg ==
    /\ \E n \in 1..MaxBgPixels : \E graysum \in 0..(255 * n) :
          image = Resized(n, 1, graysum, <<>>)
    /\ params = default_params
    /\ page_num = 0
    /\ pc = "background_call"
    /\ split_positions = <<>>
    /\ i = 0
    /\ cropped_images = <<>>
    /\ segments = <<>>
    /\ images = <<>>
    /\ result = <<>>
    /\ errors = <<>>

BackgroundCall ==
    /\ pc = "background_call"
    /\ result' = best_background_for_image(image)
    /\ pc' = "background_ret"
    /\ UNCHANGED <<image, page_num, params, split_positions, i, cropped_images,
                   segments, images, errors>>

NextBg == BackgroundCall

SpecBg == InitBg /\ [][NextBg]_vars

-----------------------------------------------------------------------------
(* Vocabulary of the properties *)

\* the splitter has been entered by the call of line 231
SplitterInvoked ==
    pc \in {"split_call", "split_loop", "split_ret"} \/ split_positions # <<>>

\* the cropped image a returned image was made from: the content of a
\* canvas, or the image itself when the fitting step handed it back
CroppedOf(out) == IF out.kind = "canvas" THEN out.content.of ELSE out

\* the box <<x0, y0, x1, y1>> of an image in the coordinates of the page
BoxOf(img) == <<img.left, img.top, img.left + img.width, img.top + img.height>>

\* the pixels <<x, y>> of rows top..bottom-1 of the page whose grayscale
\* value is neither above light nor below dark
ContentPixels(top, bottom, light, dark) ==
    {c \in (0..(image.width - 1)) \X (top..(bottom - 1)) :
        GrayAt(image, c[1], c[2]) <= light /\ GrayAt(image, c[1], c[2]) >= dark}

\* box is the smallest box holding every content pixel of rows top..bottom-1:
\* it holds them all and each of its four sides touches one; with no
\* content pixel it is the whole of the rows
IsContentBox(box, top, bottom, light, dark) ==
    LET content == ContentPixels(top, bottom, light, dark)
    IN  IF content = {}
        THEN box = <<0, top, image.width, bottom>>
        ELSE /\ \A c \in content :
                   box[1] <= c[1] /\ c[1] < box[3] /\ box[2] <= c[2] /\ c[2] < box[4]
             /\ \E c \in content : c[1] = box[1]
             /\ \E c \in content : c[1] = box[3] - 1
             /\ \E c \in content : c[2] = box[2]
             /\ \E c \in content : c[2] = box[4] - 1

\* the rows the dead-row detector reports for the page
DeadRows ==
    {y \in 0..(image.height - 1) :
        RowIsDead(image, y, params.threshold_light, params.threshold_dark)}

InSegment(k, y) == segments[k][1] <= y /\ y < segments[k][2]

-----------------------------------------------------------------------------
(* C1 *)

\* C1: every image split_and_crop_image returns for a page is exactly
\* screen_width x screen_height, whatever the size of the input and also when
\* the fitting step fails internally.
C1_EveryOutputIsCanvasSized ==
    pc = "done" =>
        \A k \in 1..Len(images) :
            /\ images[k].width = final_document_width
            /\ images[k].height = final_document_height

-----------------------------------------------------------------------------
(* C2 *)

\* C2: when a step of processing a page has failed, split_and_crop_image
\* returns zero images for that page.
C2_FailureYieldsNoImage ==
    (pc = "done" /\ errors # <<>>) => images = <<>>

-----------------------------------------------------------------------------
(* C3 *)

\* C3: the splitting branch is taken only for an image of aspect ratio above
\* 1.5 that is colored; every grayscale image and every narrow image goes
\* through the single-crop branch.
C3_SplitOnlyWideAndColored ==
    SplitterInvoked => (AspectAbove1_5(image) /\ is_colored(image))

-----------------------------------------------------------------------------
(* C4 *)

\* C4: for page index 0 the splitter is never invoked, whatever the image's
\* aspect ratio and coloring, and the result is exactly one image.
C4_FirstPageIsSingleCrop ==
    page_num = 0 =>
        /\ ~ SplitterInvoked
        /\ pc = "done" => Len(images) = 1

\* a wide, colored first page has been processed
C4_Witness ==
    /\ page_num = 0
    /\ pc = "done"
    /\ AspectAbove1_5(image)
    /\ is_colored(image)
    /\ Len(images) = 1

-----------------------------------------------------------------------------
(* C5 *)

\* C5: the segments are the content runs between the dead bands, with no dead
\* row inside a segment: the page of height 2000 with dead bands at rows
\* 600-650 and 1400-1450, min_gap 20 and min_segment_height 75, yields exactly
\* [0,600), [650,1400), [1450,2000).
C5_SegmentsHoldNoDeadRow ==
    pc = "split_ret" =>
        /\ (image = ScenarioImage /\ params = default_params)
              => segments = << <<0, 600>>, <<650, 1400>>, <<1450, 2000>> >>
        /\ \A k \in 1..Len(segments) : \A y \in DeadRows : ~ InSegment(k, y)

-----------------------------------------------------------------------------
(* C6 *)

\* C6: the emitted segments are in strictly top-to-bottom order, do not
\* overlap, lie within [0, total_height], each has height at least
\* min_segment_height, and none is the merge of two candidates (no split
\* position lies strictly inside a segment); one image is emitted per segment.
C6_SegmentsOrderedDisjointTall ==
    /\ Len(cropped_images) = Len(segments)
    /\ \A k \in 1..Len(segments) :
          /\ 0 <= segments[k][1]
          /\ segments[k][1] < segments[k][2]
          /\ segments[k][2] <= image.height
          /\ segments[k][2] - segments[k][1] >= params.min_segment_height
          /\ \A j \in 1..Len(split_positions) :
                ~ (segments[k][1] < split_positions[j]
                     /\ split_positions[j] < segments[k][2])
          /\ k < Len(segments) =>
                /\ segments[k][2] <= segments[k + 1][1]
                /\ segments[k][1] < segments[k + 1][1]

\* two segments were emitted and a candidate between split positions was
\* dropped for its height
C6_Witness ==
    /\ pc = "split_ret"
    /\ Len(segments) >= 2
    /\ \E j \in 1..(Len(split_positions) - 1) :
          /\ split_positions[j + 1] - split_positions[j] > params.min_gap
          /\ split_positions[j + 1] - split_positions[j] < params.min_segment_height
          /\ \A k \in 1..Len(segments) : segments[k][1] # split_positions[j]

-----------------------------------------------------------------------------
(* C7 *)

\* C7: crop_image_by_blank_or_dark_space returns the image cropped to the
\* smallest box holding every pixel whose grayscale value is neither above
\* the light threshold nor below the dark threshold, the box lying inside the
\* image and being non-empty; with no such pixel it returns the image as is.
C7_CropIsMinimalContentBox ==
    pc = "crop_ret" =>
        LET box == BoxOf(result)
        IN  /\ IsContentBox(box, 0, image.height, params.blank_threshold,
                            params.dark_threshold)
            /\ 0 <= box[1] /\ box[1] < box[3] /\ box[3] <= image.width
            /\ 0 <= box[2] /\ box[2] < box[4] /\ box[4] <= image.height
            /\ result.px = [y \in 1..(box[4] - box[2]) |->
                              [x \in 1..(box[3] - box[1]) |->
                                  image.px[box[2] + y][box[1] + x]]]
            /\ ContentPixels(0, image.height, params.blank_threshold,
                             params.dark_threshold) = {} => result = image

\* a crop that trimmed the image on the left and the right and in height
C7_Witness ==
    /\ pc = "crop_ret"
    /\ result.left > 0
    /\ result.left + result.width < image.width
    /\ result.height < image.height

-----------------------------------------------------------------------------
(* C8 *)

\* C8: the background chosen maximizes contrast against the resized content:
\* with m the mean grayscale value, the chosen b in {0, 255} has
\* |b - m| >= |b' - m| for the other candidate b'.  (Both sides are
\* multiplied by the number of pixels.)
C8_BackgroundMaximizesContrast ==
    pc = "background_ret" =>
        LET b == result[1]
            other == 255 - b
        IN  Abs(b * PixelCount(image) - image.graysum)
               >= Abs(other * PixelCount(image) - image.graysum)

-----------------------------------------------------------------------------
(* C9 *)

\* C9 as stated: the manga-style branch crops the whole page with light 240,
\* dark 15, the strip-style branch crops each segment with light 240, dark 30.
C9_BranchesCropWithDifferentThresholds ==
    pc = "done" =>
        IF SplitterInvoked
        THEN \A k \in 1..Len(images) :
                IsContentBox(BoxOf(CroppedOf(images[k])),
                             segments[k][1], segments[k][2], 240, 30)
        ELSE \A k \in 1..Len(images) :
                IsContentBox(BoxOf(CroppedOf(images[k])), 0, image.height, 240, 15)

\* C9 as amended: both branches crop with light 240, dark 30, the manga-style
\* branch the whole page and the strip-style branch each segment, so that a
\* pixel of intensity 15..29 is content on neither branch.
C9_BranchesCropWithSameThresholds ==
    pc = "done" =>
        IF SplitterInvoked
        THEN /\ Len(images) = Len(segments)
             /\ \A k \in 1..Len(images) :
                   IsContentBox(BoxOf(CroppedOf(images[k])),
                                segments[k][1], segments[k][2], 240, 30)
        ELSE /\ Len(images) = 1
             /\ IsContentBox(BoxOf(CroppedOf(images[1])), 0, image.height, 240, 30)

\* a page of the manga-style branch with a row of intensity 15..29 that the
\* crop cut away
C9_Witness ==
    /\ pc = "done"
    /\ ~ SplitterInvoked
    /\ Len(images) = 1
    /\ \E y \in 0..(image.height - 1) :
          /\ GrayAt(image, 0, y) >= 15
          /\ GrayAt(image, 0, y) < 30
          /\ ~ (BoxOf(CroppedOf(images[1]))[2] <= y
                  /\ y < BoxOf(CroppedOf(images[1]))[4])

-----------------------------------------------------------------------------
(* C10 *)

\* C10: thin dead lines do not split the page: for dead rows d1 <= d2 less
\* than min_gap apart (d1 = d2: one isolated dead row, with min_gap above 1)
\* that have a content row directly above and directly below, those two
\* content rows end up in the same emitted segment.
C10_ThinDeadLinesDoNotSplit ==
    pc = "split_ret" =>
        \A d1 \in DeadRows : \A d2 \in DeadRows :
            ( /\ d1 <= d2
              /\ d2 - d1 + 1 < params.min_gap
              /\ d1 - 1 \in (0..(image.height - 1)) \ DeadRows
              /\ d2 + 1 \in (0..(image.height - 1)) \ DeadRows )
            => \A k \in 1..Len(segments) :
                  InSegment(k, d1 - 1) <=> InSegment(k, d2 + 1)

====
